---- MODULE Spec2Model ----
(***************************************************************************)
(* Model of tools/fetch_vercel_logs.py: the diagnosis of the latest Vercel *)
(* deployment.  main() is a state machine over its program positions; the  *)
(* parsing, classification and rendering functions are operators.          *)
(*                                                                         *)
(* A Python str is a sequence of one-character strings, so that lower(),   *)
(* upper(), strip() and the `in` substring test are computed character by  *)
(* character.  A literal that the program only concatenates or prints is   *)
(* kept as one token.  A JSON value that may be missing or of another type *)
(* is a record [kind, val] with kind "none" (absent or null), "str" or     *)
(* "other" (a number, a list, ...).                                        *)
(***************************************************************************)
EXTENDS Integers, Sequences, FiniteSets, TLC

VARIABLES
    pc,           \* position of main(): the line it executes next, or "done"
    environ,      \* os.environ: VERCEL_TOKEN, VERCEL_PROJECT_NAME, VERCEL_TEAM_ID
    requests,     \* the GET requests make_request has issued, in order
    responses,    \* how each of these requests ended, in the same order
    deployments,  \* main's local `deployments`
    latest,       \* main's local `latest`
    events,       \* main's local `events`
    insights,     \* main's local `insights`
    summary,      \* main's local `summary`
    stdout,       \* what print() has written, in order
    exit_code     \* the status the process ends with

vars == << pc, environ, requests, responses, deployments, latest, events,
           insights, summary, stdout, exit_code >>

(* ------------------------------ bounds -------------------------------- *)

MaxDeployments == 2   \* longest deployments array a response carries
MaxRawEvents == 1     \* longest events array a response carries in main
MaxEvents == 2        \* longest event list handed to derive_insights

(* --------------------------- JSON values ------------------------------ *)

None == [kind |-> "none", val |-> <<>>]
Other == [kind |-> "other", val |-> <<>>]
Str(t) == [kind |-> "str", val |-> t]

\* Python truthiness of an optional string: None and "" are falsy.
Truthy(v) == v.kind = "str" /\ v.val # <<>>

Unset == [kind |-> "unset"]

(* ------------------------------ strings ------------------------------- *)

UpperCase == <<"A","B","C","D","E","F","G","H","I","J","K","L","M",
               "N","O","P","Q","R","S","T","U","V","W","X","Y","Z">>
LowerCase == <<"a","b","c","d","e","f","g","h","i","j","k","l","m",
               "n","o","p","q","r","s","t","u","v","w","x","y","z">>
Whitespace == {" ", "\t", "\n", "\r"}

IndexIn(c, alphabet) == CHOOSE i \in 1..Len(alphabet) : alphabet[i] = c

UpperCaseSet == {UpperCase[i] : i \in 1..Len(UpperCase)}
LowerCaseSet == {LowerCase[i] : i \in 1..Len(LowerCase)}
ToLower == [c \in UpperCaseSet |-> LowerCase[IndexIn(c, UpperCase)]]
ToUpper == [c \in LowerCaseSet |-> UpperCase[IndexIn(c, LowerCase)]]

\* str.lower()
lower(s) == [i \in 1..Len(s) |-> IF s[i] \in UpperCaseSet THEN ToLower[s[i]] ELSE s[i]]

\* str.upper()
upper(s) == [i \in 1..Len(s) |-> IF s[i] \in LowerCaseSet THEN ToUpper[s[i]] ELSE s[i]]

\* str.strip(): leading and trailing whitespace removed, the inside kept.
strip(s) ==
    LET inked == {i \in 1..Len(s) : s[i] \notin Whitespace}
    IN  IF inked = {} THEN <<>>
        ELSE SubSeq(s, CHOOSE i \in inked : \A j \in inked : i <= j,
                       CHOOSE i \in inked : \A j \in inked : j <= i)

\* `pattern in text`
Contains(pattern, text) ==
    \E i \in 0..(Len(text) - Len(pattern)) :
        \A j \in 1..Len(pattern) : text[i + j] = pattern[j]

\* [f(x) for x in s]
Map(f(_), s) == [i \in 1..Len(s) |-> f(s[i])]

\* all sequences over S of length at most n
SeqsUpTo(S, n) == UNION {[1..k -> S] : k \in 0..n}

(* -------------------------- phrase sets ------------------------------- *)

ERROR_PATTERNS ==
    << <<"e","r","r","o","r">>,
       <<"f","a","i","l">>,
       <<"c","a","n","n","o","t">>,
       <<"m","i","s","s","i","n","g">>,
       <<"m","o","d","u","l","e"," ","n","o","t"," ","f","o","u","n","d">> >>

ENV_PATTERNS ==
    << <<"e","n","v","i","r","o","n","m","e","n","t"," ","v","a","r","i","a","b","l","e">>,
       <<"e","n","v"," ","v","a","r">>,
       <<"n","o","t"," ","s","e","t">>,
       <<"u","n","d","e","f","i","n","e","d">>,
       <<"m","i","s","s","i","n","g"," ","k","e","y">> >>

DEPENDENCY_PATTERNS ==
    << <<"m","o","d","u","l","e"," ","n","o","t"," ","f","o","u","n","d">>,
       <<"c","a","n","n","o","t"," ","f","i","n","d"," ","m","o","d","u","l","e">>,
       <<"n","p","m"," ","e","r","r","!"," ","m","i","s","s","i","n","g"," ","s","c","r","i","p","t">>,
       <<"p","a","c","k","a","g","e"," ","n","o","t"," ","f","o","u","n","d">>,
       <<"d","e","p","e","n","d","e","n","c","y"," ","i","s"," ","m","i","s","s","i","n","g">> >>

NEXT_JS == <<"n","e","x","t",".","j","s">>
ASTRO == <<"a","s","t","r","o">>
REMIX == <<"r","e","m","i","x">>
SVELTEKIT == <<"s","v","e","l","t","e","k","i","t">>

NO_ERROR_FOUND ==
    <<"N","o"," ","e","x","p","l","i","c","i","t"," ","e","r","r","o","r"," ",
      "m","e","s","s","a","g","e"," ","f","o","u","n","d"," ","i","n"," ",
      "l","o","g","s",".">>

REC_BUILD_COMMAND == <<"Verify the build command in Vercel project settings.">>
REC_CONFIRM_ENV ==
    <<"Confirm all required environment variables are configured in the Vercel dashboard.">>
REC_REPRODUCE ==
    <<"Reproduce the build locally with 'npm run build' to validate the fix before redeploying.">>
REC_SET_ENV == <<"Set the missing environment variables noted in the logs.">>
REC_INSTALL_DEPS ==
    <<"Install or declare the dependencies that are reported as missing.">>

STATE_DEFAULT == <<"u","n","k","n","o","w","n">>
UNKNOWN_LABEL == <<"Unknown">>

(* ------------------------- list_deployments --------------------------- *)

\* One element of data["deployments"] turned into a Deployment.  created_at
\* is kept in thousandths of a second: the division by 1000.0 keeps the
\* order of the values, and keeps distinct values distinct.
Deployment(item) ==
    [ uid        |-> IF item.uid.kind = "str" THEN item.uid.val ELSE <<>>,
      state      |-> IF item.state.kind = "str" THEN item.state.val ELSE STATE_DEFAULT,
      created_at |-> item.created,
      framework  |-> IF item.meta.kind = "dict" THEN item.meta.framework ELSE None ]

\* Faulty variant: equal keys end up in reverse order, as with
\* sorted(...)[::-1].
InsertTiesReversed(d, sorted) ==
    LET ahead == {i \in 1..Len(sorted) : sorted[i].created_at > d.created_at}
        n == Cardinality(ahead)
    IN  SubSeq(sorted, 1, n) \o <<d>> \o SubSeq(sorted, n + 1, Len(sorted))

\* list.sort(key=created_at, reverse=True) puts `d` behind every element whose
\* key is at least its own, so that equal keys keep their order.
Insert(d, sorted) ==
    LET ahead == {i \in 1..Len(sorted) : sorted[i].created_at >= d.created_at}
        n == Cardinality(ahead)
    IN  SubSeq(sorted, 1, n) \o <<d>> \o SubSeq(sorted, n + 1, Len(sorted))

RECURSIVE sort_created_desc(_)
sort_created_desc(ds) ==
    IF ds = <<>> THEN <<>>
    ELSE Insert(ds[Len(ds)], sort_created_desc(SubSeq(ds, 1, Len(ds) - 1)))

\* The part of list_deployments after the request: `data` is the decoded
\* array of the response.
list_deployments(data) == sort_created_desc(Map(Deployment, data))

(* -------------------------- fetch_events ------------------------------ *)

\* The decoded events array with everything that is not a dict dropped.
IsDict(entry) == entry.isdict
fetch_events(data) ==
    Map(LAMBDA entry : [payload |-> entry.payload, message |-> entry.message],
        SelectSeq(data, IsDict))

(* --------------------- extract_text_from_event ------------------------ *)

\* Faulty variant: a dict payload without a string text hides the message.
extract_text_no_fallback(event) ==
    IF event.payload.kind = "dict"
    THEN IF event.payload.text.kind = "str" THEN event.payload.text.val ELSE <<>>
    ELSE IF event.message.kind = "str" THEN event.message.val ELSE <<>>

extract_text_from_event(event) ==
    IF event.payload.kind = "dict" /\ event.payload.text.kind = "str"
    THEN event.payload.text.val
    ELSE IF event.message.kind = "str" THEN event.message.val
    ELSE <<>>

(* --------------------------- find_framework --------------------------- *)

\* Faulty variant: the text is not lower-cased before the markers are sought.
RECURSIVE scan_framework_case_sensitive(_, _)
scan_framework_case_sensitive(evs, i) ==
    IF i > Len(evs) THEN None
    ELSE LET text == extract_text_from_event(evs[i])
         IN  IF Contains(NEXT_JS, text) THEN Str(NEXT_JS)
             ELSE IF Contains(ASTRO, text) THEN Str(ASTRO)
             ELSE IF Contains(REMIX, text) THEN Str(REMIX)
             ELSE IF Contains(SVELTEKIT, text) THEN Str(SVELTEKIT)
             ELSE scan_framework_case_sensitive(evs, i + 1)

\* The loop over the events, from event i on.
RECURSIVE scan_framework(_, _)
scan_framework(evs, i) ==
    IF i > Len(evs) THEN None
    ELSE LET text == lower(extract_text_from_event(evs[i]))
         IN  IF Contains(NEXT_JS, text) THEN Str(NEXT_JS)
             ELSE IF Contains(ASTRO, text) THEN Str(ASTRO)
             ELSE IF Contains(REMIX, text) THEN Str(REMIX)
             ELSE IF Contains(SVELTEKIT, text) THEN Str(SVELTEKIT)
             ELSE scan_framework(evs, i + 1)

\* Faulty variant: a marker in the events overrides the declared framework.
find_framework_events_first(deployment, evs) ==
    IF scan_framework(evs, 1) # None THEN scan_framework(evs, 1)
    ELSE deployment.framework

find_framework(deployment, evs) ==
    IF Truthy(deployment.framework) THEN deployment.framework
    ELSE scan_framework(evs, 1)

(* --------------------------- detect_patterns -------------------------- *)

\* The inner loop over the patterns, from pattern i on: the line is appended
\* at the first pattern found in it and the loop is left.
RECURSIVE match_line(_, _, _, _)
match_line(line, low, patterns, i) ==
    IF i > Len(patterns) THEN <<>>
    ELSE IF Contains(patterns[i], low) THEN <<strip(line)>>
    ELSE match_line(line, low, patterns, i + 1)

\* Faulty variant: no break, the line is appended once per phrase found.
RECURSIVE match_line_no_break(_, _, _, _)
match_line_no_break(line, low, patterns, i) ==
    IF i > Len(patterns) THEN <<>>
    ELSE (IF Contains(patterns[i], low) THEN <<strip(line)>> ELSE <<>>)
         \o match_line_no_break(line, low, patterns, i + 1)

RECURSIVE detect_patterns_from(_, _, _)
detect_patterns_from(lines, patterns, k) ==
    IF k > Len(lines) THEN <<>>
    ELSE LET low == lower(lines[k])
         IN  match_line(lines[k], low, patterns, 1)
             \o detect_patterns_from(lines, patterns, k + 1)

RECURSIVE detect_patterns_no_break(_, _, _)
detect_patterns_no_break(lines, patterns, k) ==
    IF k > Len(lines) THEN <<>>
    ELSE LET low == lower(lines[k])
         IN  match_line_no_break(lines[k], low, patterns, 1)
             \o detect_patterns_no_break(lines, patterns, k + 1)

detect_patterns_every_match(lines, patterns) == detect_patterns_no_break(lines, patterns, 1)

detect_patterns(lines, patterns) == detect_patterns_from(lines, patterns, 1)

(* --------------------------- derive_insights -------------------------- *)

HasText(event) == extract_text_from_event(event) # <<>>

\* lines = [extract_text_from_event(e) for e in events if extract_text_from_event(e)]
event_lines(evs) == Map(extract_text_from_event, SelectSeq(evs, HasText))

\* Faulty variant: error_lines[0] instead of error_lines[-1].
first_error_line(error_lines) ==
    IF error_lines # <<>> THEN error_lines[1] ELSE NO_ERROR_FOUND

\* error_lines[-1] if error_lines else the placeholder
pick_root_cause(error_lines) ==
    IF error_lines # <<>> THEN error_lines[Len(error_lines)] ELSE NO_ERROR_FOUND

\* list.insert(1, x) on a list of at least one element
InsertAt1(list, x) == <<list[1], x>> \o SubSeq(list, 2, Len(list))

BASELINE == <<REC_BUILD_COMMAND, REC_CONFIRM_ENV, REC_REPRODUCE>>

\* Faulty variant: the two insertions in the other order.
recommend_deps_then_env(missing_envs, missing_dependencies) ==
    LET withDeps == IF missing_dependencies # <<>>
                    THEN InsertAt1(BASELINE, REC_INSTALL_DEPS) ELSE BASELINE
    IN  IF missing_envs # <<>> THEN InsertAt1(withDeps, REC_SET_ENV) ELSE withDeps

recommend(missing_envs, missing_dependencies) ==
    LET withEnv == IF missing_envs # <<>>
                   THEN InsertAt1(BASELINE, REC_SET_ENV) ELSE BASELINE
    IN  IF missing_dependencies # <<>>
        THEN InsertAt1(withEnv, REC_INSTALL_DEPS) ELSE withEnv

derive_insights(deployment, evs) ==
    LET lines == event_lines(evs)
        error_lines == detect_patterns(lines, ERROR_PATTERNS)
        missing_envs == detect_patterns(lines, ENV_PATTERNS)
        missing_dependencies == detect_patterns(lines, DEPENDENCY_PATTERNS)
    IN  [ root_cause           |-> pick_root_cause(error_lines),
          missing_envs         |-> missing_envs,
          missing_dependencies |-> missing_dependencies,
          framework            |-> find_framework(deployment, evs),
          build_status         |-> deployment.state,
          recommendations      |-> recommend(missing_envs, missing_dependencies) ]

(* ---------------------------- format_summary -------------------------- *)

\* A rendered text is the sequence of its lines; "\n\n".join puts one empty
\* line between two sections.
Bullets(items) == Map(LAMBDA item : <<"  - ">> \o item, items)

RECURSIVE JoinSections(_)
JoinSections(sections) ==
    IF sections = <<>> THEN <<>>
    ELSE IF Len(sections) = 1 THEN sections[1]
    ELSE sections[1] \o << <<>> >> \o JoinSections(Tail(sections))

ENV_TITLE == <<"Missing ENV Vars:">>
DEPS_TITLE == <<"Missing Dependencies:">>
FIX_TITLE == <<"FIX RECOMMENDATION |">>
HEADER_LABEL == <<"Latest deployment: ">>
STATUS_LABEL == <<"BUILD STATUS | ">>
ROOT_CAUSE_LABEL == <<"ROOT CAUSE | ">>

\* Faulty variant: the dependency block before the environment block.
extra_sections_deps_first(ins) ==
    (IF ins.missing_dependencies # <<>>
     THEN << <<DEPS_TITLE>> \o Bullets(ins.missing_dependencies) >> ELSE <<>>)
    \o
    (IF ins.missing_envs # <<>>
     THEN << <<ENV_TITLE>> \o Bullets(ins.missing_envs) >> ELSE <<>>)

extra_sections(ins) ==
    (IF ins.missing_envs # <<>>
     THEN << <<ENV_TITLE>> \o Bullets(ins.missing_envs) >> ELSE <<>>)
    \o
    (IF ins.missing_dependencies # <<>>
     THEN << <<DEPS_TITLE>> \o Bullets(ins.missing_dependencies) >> ELSE <<>>)

\* time.strftime("%Y-%m-%d %H:%M:%S", time.localtime(created_at)): the
\* whole second the deployment was created in.
Created(created_at) == <<ToString(created_at \div 1000)>>

format_summary(ins, deployment) ==
    LET framework == IF Truthy(ins.framework) THEN ins.framework.val ELSE UNKNOWN_LABEL
        status_line == STATUS_LABEL \o upper(ins.build_status)
                         \o <<" | Framework: ">> \o framework
        root_cause_line == ROOT_CAUSE_LABEL \o ins.root_cause
        fix_section == <<FIX_TITLE>> \o Bullets(ins.recommendations)
        header == HEADER_LABEL \o deployment.uid
                    \o <<" | Created: ">> \o Created(deployment.created_at)
    IN  JoinSections(<< <<header>>, <<status_line>>, <<root_cause_line>> >>
                     \o extra_sections(ins) \o <<fix_section>>)

(* ------------------------------ inputs -------------------------------- *)

TxtEmpty == <<>>
TxtBuildOk == <<"B","u","i","l","d"," ","o","k">>
TxtModuleNotFound ==
    <<" ","E","R","R","O","R",":"," ","M","o","d","u","l","e"," ","N","o","t"," ",
      "F","o","u","n","d","\t">>
TxtEnvVar == <<"e","n","v"," ","v","a","r"," ","X"," ","n","o","t"," ","s","e","t">>
TxtMissingKey ==
    <<"M","i","s","s","i","n","g"," ","K","e","y"," ","u","n","d","e","f","i","n","e","d">>
TxtCannotFind ==
    <<"C","a","n","n","o","t"," ","f","i","n","d"," ","m","o","d","u","l","e"," ",
      "a","s","t","r","o">>
TxtNextFailed ==
    <<"N","e","x","t",".","j","s"," ","b","u","i","l","d"," ","F","A","I","L","E","D"," ">>
TxtBlank == <<" "," ">>
TxtAstroNext == <<"a","s","t","r","o"," ","o","n"," ","N","e","x","t",".","j","s">>
TxtRemix == <<"R","e","m","i","x","+","S","v","e","l","t","e","K","i","t">>
TxtNuxt == <<"n","u","x","t">>
TxtReady == <<"R","e","a","d","y">>
UidA == <<"d","p","l","_","A">>
UidB == <<"d","p","l","_","B">>

NoPayload == [kind |-> "none", text |-> None]
NonDictPayload == [kind |-> "other", text |-> None]
Payload(text) == [kind |-> "dict", text |-> text]

\* Event records as fetch_events returns them: texts under the payload, and
\* the shapes that make extract_text_from_event fall back or give up.
EventPool ==
    { [payload |-> Payload(Str(t)), message |-> None] :
        t \in {TxtMissingKey, TxtBlank, TxtAstroNext, TxtRemix} }
    \cup
    { [payload |-> NoPayload,            message |-> Str(TxtNextFailed)],
      [payload |-> NonDictPayload,       message |-> Str(TxtEnvVar)],
      [payload |-> Payload(None),        message |-> Str(TxtCannotFind)],
      [payload |-> Payload(Other),       message |-> Str(TxtModuleNotFound)],
      [payload |-> Payload(Str(TxtEmpty)),   message |-> Str(TxtMissingKey)],
      [payload |-> Payload(Str(TxtBuildOk)), message |-> Str(TxtModuleNotFound)],
      [payload |-> NoPayload,            message |-> Other],
      [payload |-> NoPayload,            message |-> None] }

\* Deployments handed to derive_insights: every kind of framework field.
InsightDeployments ==
    { [uid |-> UidA, state |-> TxtReady, created_at |-> 1500, framework |-> f] :
        f \in {None, Str(TxtEmpty), Str(TxtNuxt), Str(ASTRO)} }

\* Elements of the "deployments" array of a response.
NoMeta == [kind |-> "none", framework |-> None]
NonDictMeta == [kind |-> "other", framework |-> None]
Meta(framework) == [kind |-> "dict", framework |-> framework]

DeploymentItems ==
    { [uid |-> Str(u), state |-> Str(TxtReady), created |-> c, meta |-> m] :
        u \in {UidA, UidB}, c \in {1500, 2500}, m \in {NoMeta, Meta(Str(TxtNuxt))} }
    \cup
    { [uid |-> None, state |-> None, created |-> 0, meta |-> NonDictMeta] }

\* Elements of the events array of a response.
RawEvents ==
    { [isdict |-> FALSE, payload |-> NoPayload, message |-> None],
      [isdict |-> TRUE,  payload |-> Payload(Str(TxtNextFailed)), message |-> None],
      [isdict |-> TRUE,  payload |-> NoPayload, message |-> Str(TxtBuildOk)] }

Environments ==
    [ token   : {None, Str(TxtEmpty), Str(<<"tok">>)},
      project : {None, Str(TxtEmpty), Str(<<"prj">>)},
      team    : {None, Str(<<"team">>)} ]

(* ----------------------------- make_request --------------------------- *)

\* What one call of make_request can end in: the decoded payload, one of the
\* three VercelAPIError it raises, or an exception it does not catch (a
\* timeout while reading, undecodable bytes, a payload of another shape).
HTTP_ERROR == << <<"HTTP error ">> \o <<"500">> \o <<" from Vercel API: ">> \o <<"Server Error">> >>
URL_ERROR == << <<"Failed to reach Vercel API: ">> \o <<"timed out">> >>
JSON_ERROR == << <<"Invalid JSON payload from Vercel API">> >>

VercelAPIErrors == {HTTP_ERROR, URL_ERROR, JSON_ERROR}

Failures ==
    { [kind |-> "VercelAPIError", message |-> m, data |-> <<>>] : m \in VercelAPIErrors }
    \cup { [kind |-> "uncaught", message |-> <<>>, data |-> <<>>] }

Ok(data) == [kind |-> "ok", message |-> <<>>, data |-> data]

DeploymentsOutcomes ==
    Failures \cup { Ok(d) : d \in SeqsUpTo(DeploymentItems, MaxDeployments) }

EventsOutcomes ==
    Failures \cup { Ok(d) : d \in SeqsUpTo(RawEvents, MaxRawEvents) }

Request(api, id) ==
    [ api |-> api, id |-> id,
      teamId |-> IF Truthy(environ.team) THEN environ.team ELSE None ]

\* print(f"<cross> {exc}")
ErrorLine(message) == << <<"x ">> \o message[1] >>

ENV_NOT_SET(key) == << <<"x Environment variable ">> \o <<key>> \o <<" is not set.">> >>
NO_DEPLOYMENTS == << <<"x No deployments found for the specified project.">> >>
LatestLine(d) == << <<"Latest deployment: ">> \o d.uid \o <<" | State: ">> \o d.state >>
BLANK_LINE == << <<>> >>

(* -------------------------------- main -------------------------------- *)

Init ==
    /\ pc = "token"
    /\ environ \in Environments
    /\ requests = <<>>
    /\ responses = <<>>
    /\ deployments = <<>>
    /\ latest = Unset
    /\ events = <<>>
    /\ insights = Unset
    /\ summary = <<>>
    /\ stdout = <<>>
    /\ exit_code = -1

\* getenv_or_exit(key) at position `at`: go on to `next`, or print and exit 1.
getenv_or_exit(at, key, value, next) ==
    /\ pc = at
    /\ IF Truthy(value)
       THEN /\ pc' = next
            /\ UNCHANGED << stdout, exit_code >>
       ELSE /\ stdout' = Append(stdout, ENV_NOT_SET(key))
            /\ exit_code' = 1
            /\ pc' = "done"
    /\ UNCHANGED << environ, requests, responses, deployments, latest, events,
                    insights, summary >>

GetToken == getenv_or_exit("token", "VERCEL_TOKEN", environ.token, "project")

GetProject == getenv_or_exit("project", "VERCEL_PROJECT_NAME", environ.project, "list")

\* deployments = list_deployments(token, project, team), in its try block
ListDeployments ==
    /\ pc = "list"
    /\ requests' = Append(requests, Request("deployments", <<>>))
    /\ \E r \in DeploymentsOutcomes :
         /\ responses' = Append(responses, r)
         /\ CASE r.kind = "ok" ->
                  /\ deployments' = list_deployments(r.data)
                  /\ pc' = "check"
                  /\ UNCHANGED << stdout, exit_code >>
              [] r.kind = "VercelAPIError" ->
                  /\ stdout' = Append(stdout, ErrorLine(r.message))
                  /\ exit_code' = 1
                  /\ pc' = "done"
                  /\ UNCHANGED deployments
              [] r.kind = "uncaught" ->
                  /\ exit_code' = 1
                  /\ pc' = "done"
                  /\ UNCHANGED << deployments, stdout >>
    /\ UNCHANGED << environ, latest, events, insights, summary >>

\* Faulty variant: the empty list is reported as a failed fetch.
CheckDeploymentsAsFailure ==
    /\ pc = "check"
    /\ IF deployments = <<>>
       THEN /\ stdout' = Append(stdout, ErrorLine(JSON_ERROR))
            /\ exit_code' = 1
            /\ pc' = "done"
            /\ UNCHANGED latest
       ELSE /\ latest' = deployments[1]
            /\ stdout' = Append(stdout, LatestLine(deployments[1]))
            /\ pc' = "events"
            /\ UNCHANGED exit_code
    /\ UNCHANGED << environ, requests, responses, deployments, events, insights,
                    summary >>

\* if not deployments: ... return 1;  latest = deployments[0]
CheckDeployments ==
    /\ pc = "check"
    /\ IF deployments = <<>>
       THEN /\ stdout' = Append(stdout, NO_DEPLOYMENTS)
            /\ exit_code' = 1
            /\ pc' = "done"
            /\ UNCHANGED latest
       ELSE /\ latest' = deployments[1]
            /\ stdout' = Append(stdout, LatestLine(deployments[1]))
            /\ pc' = "events"
            /\ UNCHANGED exit_code
    /\ UNCHANGED << environ, requests, responses, deployments, events, insights,
                    summary >>

\* Faulty variant: a failed events fetch is taken for an empty event list.
FetchEventsIgnoringFailure ==
    /\ pc = "events"
    /\ requests' = Append(requests, Request("events", latest.uid))
    /\ \E r \in EventsOutcomes :
         /\ responses' = Append(responses, r)
         /\ events' = fetch_events(r.data)
         /\ pc' = "derive"
         /\ UNCHANGED << stdout, exit_code >>
    /\ UNCHANGED << environ, deployments, latest, insights, summary >>

\* events = fetch_events(token, latest.uid, team), in its try block
FetchEvents ==
    /\ pc = "events"
    /\ requests' = Append(requests, Request("events", latest.uid))
    /\ \E r \in EventsOutcomes :
         /\ responses' = Append(responses, r)
         /\ CASE r.kind = "ok" ->
                  /\ events' = fetch_events(r.data)
                  /\ pc' = "derive"
                  /\ UNCHANGED << stdout, exit_code >>
              [] r.kind = "VercelAPIError" ->
                  /\ stdout' = Append(stdout, ErrorLine(r.message))
                  /\ exit_code' = 1
                  /\ pc' = "done"
                  /\ UNCHANGED events
              [] r.kind = "uncaught" ->
                  /\ exit_code' = 1
                  /\ pc' = "done"
                  /\ UNCHANGED << events, stdout >>
    /\ UNCHANGED << environ, deployments, latest, insights, summary >>

\* insights = derive_insights(latest, events)
DeriveInsights ==
    /\ pc = "derive"
    /\ insights' = derive_insights(latest, events)
    /\ pc' = "format"
    /\ UNCHANGED << environ, requests, responses, deployments, latest, events,
                    summary, stdout, exit_code >>

\* summary = format_summary(insights, latest)
FormatSummary ==
    /\ pc = "format"
    /\ summary' = format_summary(insights, latest)
    /\ pc' = "print"
    /\ UNCHANGED << environ, requests, responses, deployments, latest, events,
                    insights, stdout, exit_code >>

\* print(); print(summary); return 0
PrintSummary ==
    /\ pc = "print"
    /\ stdout' = stdout \o <<BLANK_LINE, summary>>
    /\ exit_code' = 0
    /\ pc' = "done"
    /\ UNCHANGED << environ, requests, responses, deployments, latest, events,
                    insights, summary >>

Next ==
    \/ GetToken
    \/ GetProject
    \/ ListDeployments
    \/ CheckDeployments
    \/ FetchEvents
    \/ DeriveInsights
    \/ FormatSummary
    \/ PrintSummary

Spec == Init /\ [][Next]_vars

(* --------------- derive_insights and format_summary alone ------------- *)

\* main at line 267 with any selected deployment and any fetched events.
InitInsights ==
    /\ pc = "derive"
    /\ environ = [token |-> Str(<<"tok">>), project |-> Str(<<"prj">>), team |-> None]
    /\ latest \in InsightDeployments
    /\ events \in SeqsUpTo(EventPool, MaxEvents)
    /\ requests = <<>>
    /\ responses = <<>>
    /\ deployments = <<latest>>
    /\ insights = Unset
    /\ summary = <<>>
    /\ stdout = <<LatestLine(latest)>>
    /\ exit_code = -1

NextInsights ==
    \/ DeriveInsights
    \/ FormatSummary

SpecInsights == InitInsights /\ [][NextInsights]_vars

(* ----------------------- properties: vocabulary ----------------------- *)

Min(S) == CHOOSE x \in S : \A y \in S : x <= y
Max(S) == CHOOSE x \in S : \A y \in S : y <= x

\* The text of an event as the specification words it.
EventText(e) ==
    CASE e.payload.kind = "dict" /\ e.payload.text.kind = "str" -> e.payload.text.val
      [] ~(e.payload.kind = "dict" /\ e.payload.text.kind = "str")
           /\ e.message.kind = "str" -> e.message.val
      [] OTHER -> <<>>

EventTexts == [i \in 1..Len(events) |-> EventText(events[i])]

\* The lower-cased text contains at least one phrase of the set.
Matches(text, patterns) ==
    LET low == lower(text)
    IN  \E k \in 1..Len(patterns) : Contains(patterns[k], low)

\* How many phrases of the set the lower-cased text contains.
MatchCount(text, patterns) ==
    LET low == lower(text)
    IN  Cardinality({k \in 1..Len(patterns) : Contains(patterns[k], low)})

NonEmpty(text) == text # <<>>

\* The trimmed matching lines, one per matching line, in order.
MatchingLines(lines, patterns) ==
    Map(strip, SelectSeq(lines, LAMBDA l : Matches(l, patterns)))

\* main holds the insights / the rendered summary of the selected deployment.
Derived == pc \in {"format", "print"} \/ (pc = "done" /\ exit_code = 0)
Rendered == pc = "print" \/ (pc = "done" /\ exit_code = 0)
Selected == pc \in {"events", "derive", "format", "print"}
               \/ (pc = "done" /\ Len(requests) = 2)

(* --------------------------------- C1 --------------------------------- *)

\* C1: the deployment main analyses is an element of the response with the
\* greatest created_at, and among several with that created_at it is the one
\* that comes first in the response.
C1_LatestIsFirstMaximum ==
    Selected =>
        LET data == responses[1].data
            key(j) == Deployment(data[j]).created_at
        IN  /\ data # <<>>
            /\ latest = deployments[1]
            /\ \E k \in 1..Len(data) :
                 /\ latest = Deployment(data[k])
                 /\ \A j \in 1..Len(data) : key(j) <= key(k)
                 /\ \A j \in 1..(k - 1) : key(j) < key(k)

C1_Witness ==
    /\ pc = "events"
    /\ Len(responses[1].data) = 2
    /\ responses[1].data[1].created = responses[1].data[2].created
    /\ responses[1].data[1].uid # responses[1].data[2].uid
    /\ latest.uid = responses[1].data[1].uid.val

(* --------------------------------- C2 --------------------------------- *)

\* C2: root_cause is the trimmed text of the last event whose lower-cased
\* text contains an error phrase, the fixed placeholder when there is none,
\* and never the empty string.
C2_RootCause ==
    Derived =>
        LET hits == {i \in 1..Len(events) : Matches(EventTexts[i], ERROR_PATTERNS)}
        IN  /\ hits # {} => insights.root_cause = strip(EventTexts[Max(hits)])
            /\ hits = {} => insights.root_cause = NO_ERROR_FOUND
            /\ insights.root_cause # <<>>

C2_Witness ==
    /\ pc = "format"
    /\ Len(events) = 2
    /\ Matches(EventTexts[1], ERROR_PATTERNS)
    /\ Matches(EventTexts[2], ERROR_PATTERNS)
    /\ strip(EventTexts[1]) # strip(EventTexts[2])
    /\ EventTexts[2] # strip(EventTexts[2])
    /\ insights.root_cause = strip(EventTexts[2])

(* --------------------------------- C3 --------------------------------- *)

\* C3: detect_patterns returns the trimmed, not case-folded lines whose
\* lower-cased form contains a phrase of the set, in input order, one entry
\* per matching line; missing_envs and missing_dependencies are these lists.
C3_DetectPatterns ==
    LET lines == SelectSeq(EventTexts, NonEmpty)
    IN  /\ pc = "derive" =>
             detect_patterns(lines, ERROR_PATTERNS) = MatchingLines(lines, ERROR_PATTERNS)
        /\ Derived =>
             /\ insights.missing_envs = MatchingLines(lines, ENV_PATTERNS)
             /\ insights.missing_dependencies = MatchingLines(lines, DEPENDENCY_PATTERNS)

C3_Witness ==
    /\ pc = "format"
    /\ Len(events) = 2
    /\ MatchCount(EventTexts[1], ENV_PATTERNS) >= 2
    /\ MatchCount(EventTexts[2], ENV_PATTERNS) >= 2
    /\ EventTexts[1] # EventTexts[2]
    /\ insights.missing_envs = <<strip(EventTexts[1]), strip(EventTexts[2])>>

(* --------------------------------- C4 --------------------------------- *)

IsBaseline(r) == r \in {REC_BUILD_COMMAND, REC_CONFIRM_ENV, REC_REPRODUCE}

\* C4: with both lists non-empty the recommendations are baseline 1, the
\* dependency remediation, the environment remediation, baseline 2,
\* baseline 3; with one list non-empty its remediation is at index 1 (the
\* second place); the baseline entries always keep their order, the first
\* of them in front.
C4_Recommendations ==
    Derived =>
        LET recs == insights.recommendations
            envs == insights.missing_envs # <<>>
            deps == insights.missing_dependencies # <<>>
        IN  /\ envs /\ deps =>
                recs = <<REC_BUILD_COMMAND, REC_INSTALL_DEPS, REC_SET_ENV,
                         REC_CONFIRM_ENV, REC_REPRODUCE>>
            /\ envs /\ ~deps => recs[2] = REC_SET_ENV /\ Len(recs) = 4
            /\ deps /\ ~envs => recs[2] = REC_INSTALL_DEPS /\ Len(recs) = 4
            /\ recs[1] = REC_BUILD_COMMAND
            /\ SelectSeq(recs, IsBaseline) = BASELINE

C4_Witness ==
    /\ pc = "format"
    /\ insights.missing_envs # <<>>
    /\ insights.missing_dependencies # <<>>
    /\ insights.recommendations[2] = REC_INSTALL_DEPS
    /\ insights.recommendations[3] = REC_SET_ENV

(* --------------------------------- C5 --------------------------------- *)

Markers == <<NEXT_JS, ASTRO, REMIX, SVELTEKIT>>

\* C5: a present, non-empty framework field of the deployment is the
\* resolved framework, whatever the event texts mention.
C5_DeclaredFrameworkWins ==
    (Derived /\ latest.framework.kind = "str" /\ latest.framework.val # <<>>)
        => insights.framework = latest.framework

C5_Witness ==
    /\ pc = "format"
    /\ latest.framework = Str(TxtNuxt)
    /\ \E i \in 1..Len(events) : Matches(EventTexts[i], <<ASTRO>>)
    /\ insights.framework = Str(TxtNuxt)

(* --------------------------------- C6 --------------------------------- *)

MarkerEvents == {i \in 1..Len(events) : Matches(EventTexts[i], Markers)}

\* The first marker of the list found in the first event that holds any.
FirstMarker ==
    LET text == lower(EventTexts[Min(MarkerEvents)])
    IN  Markers[Min({k \in 1..Len(Markers) : Contains(Markers[k], text)})]

UNKNOWN == <<"u","n","k","n","o","w","n">>

\* C6 as stated: without a declared framework the resolver returns the first
\* marker found, and "unknown" when no event text holds a marker.
C6_ReturnsUnknown ==
    (Derived /\ ~Truthy(latest.framework)) =>
        insights.framework =
            IF MarkerEvents = {} THEN Str(UNKNOWN) ELSE Str(FirstMarker)

\* C6 amended: without a declared framework the resolver returns, from the
\* first event in supplied order whose lower-cased text holds a marker, the
\* marker that comes first in the list next.js, astro, remix, sveltekit; when
\* no event text holds a marker it returns no framework (None), which the
\* status line of the report shows as "Unknown".
C6_ReturnsNone ==
    (Derived /\ ~Truthy(latest.framework)) =>
        /\ insights.framework =
             IF MarkerEvents = {} THEN None ELSE Str(FirstMarker)
        /\ (Rendered /\ MarkerEvents = {}) =>
             summary[3][Len(summary[3])] = "Unknown"

C6_Witness ==
    /\ pc = "print"
    /\ ~Truthy(latest.framework)
    /\ Len(events) = 2
    /\ Matches(EventTexts[1], <<ASTRO>>)
    /\ ~Matches(EventTexts[1], <<NEXT_JS>>)
    /\ Matches(EventTexts[2], <<NEXT_JS>>)
    /\ insights.framework = Str(ASTRO)

(* --------------------------------- C7 --------------------------------- *)

\* The sections of a rendered text: its lines cut at the empty lines.
RECURSIVE SplitSections(_)
SplitSections(lines) ==
    LET blanks == {i \in 1..Len(lines) : lines[i] = <<>>}
    IN  IF blanks = {} THEN <<lines>>
        ELSE <<SubSeq(lines, 1, Min(blanks) - 1)>>
             \o SplitSections(SubSeq(lines, Min(blanks) + 1, Len(lines)))

\* What a section opens with: the first token of its first line.
Opening(section) == section[1][1]

\* C7: the report is, in this order, the header, the status line, the
\* root-cause line, the "Missing ENV Vars" block exactly when missing_envs
\* is non-empty, the "Missing Dependencies" block exactly when
\* missing_dependencies is non-empty, and the fix-recommendation block, last;
\* without any matching phrase in the events it has neither optional block
\* and its fix block lists the three baseline recommendations.
C7_ReportSections ==
    Rendered =>
        LET sections == SplitSections(summary)
            last == sections[Len(sections)]
            quiet == \A i \in 1..Len(events) :
                        \A patterns \in {ERROR_PATTERNS, ENV_PATTERNS, DEPENDENCY_PATTERNS} :
                            ~Matches(EventTexts[i], patterns)
        IN  /\ Map(Opening, sections) =
                 <<"Latest deployment: ", "BUILD STATUS | ", "ROOT CAUSE | ">>
                 \o (IF insights.missing_envs # <<>> THEN <<"Missing ENV Vars:">> ELSE <<>>)
                 \o (IF insights.missing_dependencies # <<>>
                     THEN <<"Missing Dependencies:">> ELSE <<>>)
                 \o <<"FIX RECOMMENDATION |">>
            /\ quiet =>
                 /\ Len(sections) = 4
                 /\ last = << <<"FIX RECOMMENDATION |">>,
                              <<"  - ">> \o REC_BUILD_COMMAND,
                              <<"  - ">> \o REC_CONFIRM_ENV,
                              <<"  - ">> \o REC_REPRODUCE >>

C7_Witness ==
    /\ pc = "print"
    /\ insights.missing_envs # <<>>
    /\ insights.missing_dependencies # <<>>
    /\ Len(SplitSections(summary)) = 6

C7_QuietWitness ==
    /\ pc = "print"
    /\ Len(events) = 2
    /\ \A i \in 1..Len(events) : NonEmpty(EventTexts[i])
    /\ Len(SplitSections(summary)) = 4

(* --------------------------------- C8 --------------------------------- *)

EmptyList ==
    /\ Len(responses) >= 1
    /\ responses[1].kind = "ok"
    /\ responses[1].data = <<>>

\* C8: after a deployments fetch that succeeded with an empty list the run
\* ends with the no-deployments message, which no failed fetch prints; no
\* deployment is selected, no events are requested, no insights are derived
\* and no report is rendered.
C8_NoDeploymentsFound ==
    /\ EmptyList =>
         /\ pc \in {"check", "done"}
         /\ Len(requests) = 1
         /\ latest = Unset
         /\ events = <<>>
         /\ insights = Unset
         /\ summary = <<>>
         /\ pc = "done" =>
              /\ exit_code = 1
              /\ stdout = <<NO_DEPLOYMENTS>>
              /\ \A m \in VercelAPIErrors : ErrorLine(m) # NO_DEPLOYMENTS
    /\ \A i \in 1..Len(responses) :
         responses[i].kind # "ok" =>
            \A k \in 1..Len(stdout) : stdout[k] # NO_DEPLOYMENTS

C8_Witness == EmptyList /\ pc = "done" /\ stdout = <<NO_DEPLOYMENTS>>

(* --------------------------------- C9 --------------------------------- *)

IsReport(text) == \E i \in 1..Len(text) : text[i] = FIX_TITLE

ReportPrinted == \E k \in 1..Len(stdout) : IsReport(stdout[k])

\* main can take its next step: the fetching and checking steps are enabled,
\* and the three steps from line 267 on are assignments that only their
\* position guards.
CanStep ==
    \/ ENABLED (GetToken \/ GetProject \/ ListDeployments \/ CheckDeployments
                  \/ FetchEvents)
    \/ pc \in {"derive", "format", "print"}

\* C9: with both credentials set, main goes on until it ends, and ends with
\* status 0 or 1: 0 only with the rendered report printed, after both
\* fetches succeeded on a non-empty list; 1, and no report printed, when a
\* fetch fails or the list is empty.  Events are requested only after a
\* successful, non-empty deployments fetch, and for the selected id.
C9_ExitCodes ==
    (Truthy(environ.token) /\ Truthy(environ.project)) =>
        /\ pc # "done" => exit_code = -1 /\ CanStep
        /\ pc = "done" => exit_code \in {0, 1}
        /\ ReportPrinted => exit_code = 0
        /\ exit_code = 0 =>
             /\ summary = format_summary(insights, latest)
             /\ stdout[Len(stdout)] = summary
             /\ IsReport(summary)
             /\ Len(responses) = 2
             /\ responses[1].kind = "ok" /\ responses[1].data # <<>>
             /\ responses[2].kind = "ok"
        /\ (pc = "done" /\ \E i \in 1..Len(responses) : responses[i].kind # "ok")
             => exit_code = 1 /\ ~ReportPrinted
        /\ (pc = "done" /\ EmptyList) => exit_code = 1 /\ ~ReportPrinted
        /\ \A i \in 1..Len(requests) :
             requests[i].api = "events" =>
                /\ i = 2
                /\ requests[1].api = "deployments"
                /\ responses[1].kind = "ok" /\ responses[1].data # <<>>
                /\ latest = deployments[1]
                /\ requests[i].id = latest.uid

C9_Witness ==
    /\ pc = "done"
    /\ exit_code = 0
    /\ ReportPrinted
    /\ Len(requests) = 2
    /\ requests[2].id = UidB

C9_FailureWitness ==
    /\ pc = "done"
    /\ exit_code = 1
    /\ Len(responses) = 2
    /\ responses[2].kind = "VercelAPIError"

(* --------------------------------- C10 -------------------------------- *)

\* C10: extract_text_from_event returns the payload's text when the payload
\* is a record and that text a string, otherwise the message when it is a
\* string, otherwise the empty string; an event whose text is empty adds no
\* line to root_cause, missing_envs or missing_dependencies.
C10_ExtractText ==
    /\ \A i \in 1..Len(events) :
         LET e == events[i]
             nested == e.payload.kind = "dict" /\ e.payload.text.kind = "str"
             text == extract_text_from_event(e)
         IN  /\ nested => text = e.payload.text.val
             /\ (~nested /\ e.message.kind = "str") => text = e.message.val
             /\ (~nested /\ e.message.kind # "str") => text = <<>>
    /\ Derived =>
         LET spoken == SelectSeq(events, LAMBDA e : EventText(e) # <<>>)
             without == derive_insights(latest, spoken)
         IN  /\ insights.root_cause = without.root_cause
             /\ insights.missing_envs = without.missing_envs
             /\ insights.missing_dependencies = without.missing_dependencies
             /\ Len(insights.missing_envs) <= Len(spoken)
             /\ Len(insights.missing_dependencies) <= Len(spoken)
             /\ spoken = <<>> => insights.root_cause = NO_ERROR_FOUND

C10_Witness ==
    /\ pc = "format"
    /\ Len(events) = 2
    /\ events[1].payload.kind = "dict"
    /\ events[1].payload.text = Str(<<>>)
    /\ events[1].message.kind = "str"
    /\ Matches(events[1].message.val, ERROR_PATTERNS)
    /\ events[2].payload.kind = "dict"
    /\ events[2].payload.text.kind # "str"
    /\ events[2].message.kind = "str"
    /\ insights.root_cause = strip(events[2].message.val)

====
